---- MODULE Spec2Model ----
(***************************************************************************)
(* IPv6 Simple Format (v6sf), version 0.1, Python implementation.          *)
(*                                                                         *)
(* A str is a sequence of one-character strings.  A Python int is a sign   *)
(* and a magnitude; the magnitude is a little-endian sequence of limbs in  *)
(* base LimbBase with no most-significant zero limb (zero is <<>>), so the *)
(* 128-bit and wider values the codec computes are never truncated.        *)
(*                                                                         *)
(* A run is one use of the codec: encode is called on an input, or a       *)
(* string is received; the string may be edited once; decode is called on  *)
(* it; the address decode returned is encoded again.  Spec edits only ":"  *)
(* and case, over all inputs; SpecNoisy swaps, substitutes and corrupts    *)
(* symbols of the encodings of addresses.                                  *)
(***************************************************************************)
EXTENDS Integers, Sequences, FiniteSets, TLC

(* ------------------------------------------------------------------ *)
(* Module constants                                                    *)
(* ------------------------------------------------------------------ *)

PREFIX == <<"v", "6", "s", "f", ":">>

CHARSET ==
  <<"0", "1", "2", "3", "4", "5", "6", "7", "8", "9",
    "a", "b", "c", "d", "e", "f", "g", "h", "i", "j", "k", "l", "m", "n",
    "p", "q", "r", "s", "t", "u", "v", "w", "x", "y", "z">>

BASE == Len(CHARSET)

BLOCK_SIZE == 4

\* len(hex_str) != 32
HEX_LEN == 32

\* while len(encoded) < 25
PAD_LEN == 25

(* ------------------------------------------------------------------ *)
(* str primitives                                                      *)
(* ------------------------------------------------------------------ *)

ASCII_UPPER ==
  <<"A", "B", "C", "D", "E", "F", "G", "H", "I", "J", "K", "L", "M",
    "N", "O", "P", "Q", "R", "S", "T", "U", "V", "W", "X", "Y", "Z">>

ASCII_LOWER ==
  <<"a", "b", "c", "d", "e", "f", "g", "h", "i", "j", "k", "l", "m",
    "n", "o", "p", "q", "r", "s", "t", "u", "v", "w", "x", "y", "z">>

HEX_DIGITS ==
  <<"0", "1", "2", "3", "4", "5", "6", "7", "8", "9",
    "a", "b", "c", "d", "e", "f">>

\* the sequence chars[1], ..., chars[Len(chars)]
SeqOf(chars) == SubSeq(chars, 1, Len(chars))

\* 0-based position of c in table, or -1 (str.find)
Find(table, c) ==
  IF \E i \in 1..Len(table) : table[i] = c
  THEN (CHOOSE i \in 1..Len(table) : table[i] = c) - 1
  ELSE -1

LowerChar(c) ==
  LET i == Find(ASCII_UPPER, c) IN IF i = -1 THEN c ELSE ASCII_LOWER[i + 1]

UpperChar(c) ==
  LET i == Find(ASCII_LOWER, c) IN IF i = -1 THEN c ELSE ASCII_UPPER[i + 1]

\* str.lower()
Lower(s) == SeqOf([i \in 1..Len(s) |-> LowerChar(s[i])])

\* str.upper(), used only to build inputs
Upper(s) == SeqOf([i \in 1..Len(s) |-> UpperChar(s[i])])

\* faulty variant of RemoveColons: s.replace(":", "", 1), only the first
\* ":" goes
RemoveFirstColon(s) ==
  IF \E i \in 1..Len(s) : s[i] = ":"
  THEN LET first == CHOOSE i \in 1..Len(s) :
                      s[i] = ":" /\ \A j \in 1..(i - 1) : s[j] # ":"
       IN SubSeq(s, 1, first - 1) \o SubSeq(s, first + 1, Len(s))
  ELSE s

\* s.replace(":", "")
RemoveColons(s) == SelectSeq(s, LAMBDA c : c # ":")

\* faulty variant of StartsWith: the last character of p is not compared
StartsWithAllButLast(s, p) ==
  /\ Len(s) >= Len(p) - 1
  /\ SubSeq(s, 1, Len(p) - 1) = SubSeq(p, 1, Len(p) - 1)

\* s.startswith(p)
StartsWith(s, p) == Len(s) >= Len(p) /\ SubSeq(s, 1, Len(p)) = p

\* s[a:b] for 0 <= a, 0 <= b (Python clamps both ends to len(s))
Slice(s, a, b) ==
  LET hi == IF b > Len(s) THEN Len(s) ELSE b
  IN IF a >= hi THEN <<>> ELSE SubSeq(s, a + 1, hi)

\* s[a:]
SliceFrom(s, a) == Slice(s, a, Len(s))

\* faulty variant of RJust: no padding
RJustNone(s, width, fill) == s

\* s.rjust(width, fill)
RJust(s, width, fill) ==
  IF Len(s) >= width THEN s
  ELSE SeqOf([i \in 1..(width - Len(s)) |-> fill]) \o s

\* sep.join(parts)
RECURSIVE Join(_, _)
Join(sep, parts) ==
  IF parts = <<>> THEN <<>>
  ELSE IF Len(parts) = 1 THEN parts[1]
  ELSE parts[1] \o sep \o Join(sep, Tail(parts))

\* [s[i:i+size] for i in range(0, stop, size)]
RECURSIVE ChunksFrom(_, _, _, _)
ChunksFrom(s, i, stop, size) ==
  IF i >= stop THEN <<>>
  ELSE <<Slice(s, i, i + size)>> \o ChunksFrom(s, i + size, stop, size)

\* faulty variant of Chunks: range(0, len(s), size), stop is not used
ChunksAll(s, stop, size) == ChunksFrom(s, 0, Len(s), size)

Chunks(s, stop, size) == ChunksFrom(s, 0, stop, size)

(* ------------------------------------------------------------------ *)
(* int: arbitrary precision                                            *)
(* ------------------------------------------------------------------ *)

\* a limb holds this many base-16 digits
LimbDigits == 6

LimbBase == 16 ^ LimbDigits

\* drop most-significant zero limbs
RECURSIVE Normalize(_)
Normalize(mag) ==
  IF mag # <<>> /\ mag[Len(mag)] = 0
  THEN Normalize(SubSeq(mag, 1, Len(mag) - 1))
  ELSE mag

\* mag * m + carry, for small m and carry
RECURSIVE MulAddFrom(_, _, _, _)
MulAddFrom(mag, m, carry, i) ==
  IF i > Len(mag)
  THEN (IF carry = 0 THEN <<>> ELSE <<carry>>)
  ELSE LET t == mag[i] * m + carry
       IN <<t % LimbBase>> \o MulAddFrom(mag, m, t \div LimbBase, i + 1)

MulAdd(mag, m, a) == Normalize(MulAddFrom(mag, m, a, 1))

\* mag divided by small d: <<quotient limbs (unnormalized), remainder>>,
\* from the most significant limb i down to limb 1, rem is the running
\* remainder
RECURSIVE DivModFrom(_, _, _, _)
DivModFrom(mag, d, i, rem) ==
  IF i = 0 THEN [quot |-> <<>>, rem |-> rem]
  ELSE LET t == rem * LimbBase + mag[i]
           rest == DivModFrom(mag, d, i - 1, t % d)
       IN [quot |-> Append(rest.quot, t \div d), rem |-> rest.rem]

\* current // d
FloorDiv(mag, d) == Normalize(DivModFrom(mag, d, Len(mag), 0).quot)

\* current % d
Mod(mag, d) == DivModFrom(mag, d, Len(mag), 0).rem

PyInt(neg, mag) == [neg |-> neg /\ mag # <<>>, mag |-> mag]

\* current > 0
Positive(n) == ~n.neg /\ n.mag # <<>>

\* the characters int() skips at both ends of the literal
WHITESPACE == {" "}

Least(S) == CHOOSE x \in S : \A y \in S : x <= y

\* first position >= i of s that holds no whitespace (Len(s) + 1 if none)
SkipSpaces(s, i) ==
  Least({j \in i..(Len(s) + 1) : j > Len(s) \/ s[j] \notin WHITESPACE})

\* first position >= i of s that holds neither a base-16 digit nor "_"
ScanDigits(s, i) ==
  Least({j \in i..(Len(s) + 1) :
           \/ j > Len(s)
           \/ (s[j] # "_" /\ Find(HEX_DIGITS, LowerChar(s[j])) = -1)})

\* the value of the base-16 digit that is k places from the right end of
\* digits (0 beyond the left end)
DigitAt(digits, k) ==
  IF k >= Len(digits) THEN 0 ELSE Find(HEX_DIGITS, digits[Len(digits) - k])

\* the limb made of the LimbDigits digits from place k up
RECURSIVE LimbAt(_, _, _)
LimbAt(digits, k, n) ==
  IF n = 0 THEN 0
  ELSE DigitAt(digits, k) + 16 * LimbAt(digits, k + 1, n - 1)

\* the magnitude a string of base-16 digits denotes
FromHexDigits(digits) ==
  Normalize(SeqOf(
    [j \in 1..((Len(digits) + LimbDigits - 1) \div LimbDigits) |->
       LimbAt(digits, (j - 1) * LimbDigits, LimbDigits)]))

Return(v) == [ok |-> TRUE, value |-> v, error |-> "", detail |-> ""]

Raise(msg, detail) ==
  [ok |-> FALSE, value |-> <<>>, error |-> msg, detail |-> detail]

\* int(s, 16): surrounding whitespace, one sign, an optional 0x prefix and
\* single underscores between digits are all part of a valid literal
IntBase16(s) ==
  LET n  == Len(s)
      p0 == SkipSpaces(s, 1)
      signed == p0 <= n /\ s[p0] \in {"+", "-"}
      neg == p0 <= n /\ s[p0] = "-"
      p1 == IF signed THEN p0 + 1 ELSE p0
      prefixed == p1 + 1 <= n /\ s[p1] = "0" /\ s[p1 + 1] \in {"x", "X"}
      p2 == IF ~prefixed THEN p1
            ELSE IF p1 + 2 <= n /\ s[p1 + 2] = "_" THEN p1 + 3
            ELSE p1 + 2
      p3 == ScanDigits(s, p2)
      body == IF p3 > p2 THEN SubSeq(s, p2, p3 - 1) ELSE <<>>
      digits == Lower(SelectSeq(body, LAMBDA c : c # "_"))
      p4 == SkipSpaces(s, p3)
      bad == \/ digits = <<>>
             \/ body[1] = "_"
             \/ body[Len(body)] = "_"
             \/ \E i \in 1..(Len(body) - 1) : body[i] = "_" /\ body[i + 1] = "_"
             \/ p4 <= n
  IN IF bad THEN Raise("invalid literal for int() with base 16", "")
     ELSE Return(PyInt(neg, FromHexDigits(digits)))

\* the base-16 digit k places from the right end of a magnitude
NibbleAt(mag, k) ==
  (mag[(k \div LimbDigits) + 1] \div (16 ^ (k % LimbDigits))) % 16

\* the base-16 digits of a nonzero magnitude, most significant first, with
\* no leading zero: the first digit is in the most significant limb, which
\* is not 0
HexDigitsOf(mag) ==
  LET places == LimbDigits * Len(mag)
      top == CHOOSE k \in (places - LimbDigits)..(places - 1) :
               /\ NibbleAt(mag, k) # 0
               /\ \A h \in (k + 1)..(places - 1) : NibbleAt(mag, h) = 0
  IN SeqOf([i \in 1..(top + 1) |-> HEX_DIGITS[NibbleAt(mag, top + 1 - i) + 1]])

\* hex(value)
Hex(n) ==
  (IF n.neg THEN <<"-">> ELSE <<>>) \o <<"0", "x">>
    \o (IF n.mag = <<>> THEN <<"0">> ELSE HexDigitsOf(n.mag))

(* ------------------------------------------------------------------ *)
(* The codec                                                           *)
(* ------------------------------------------------------------------ *)

RECURSIVE SumIndex(_, _)
SumIndex(encoded, i) ==
  IF i > Len(encoded) THEN 0
  ELSE Find(CHARSET, encoded[i]) + SumIndex(encoded, i + 1)

\* sum of the symbols' positions, each weighted by its place in encoded
RECURSIVE WeightedSumIndex(_, _)
WeightedSumIndex(encoded, i) ==
  IF i > Len(encoded) THEN 0
  ELSE i * Find(CHARSET, encoded[i]) + WeightedSumIndex(encoded, i + 1)

\* faulty variant of _calculate_checksum: the sum depends on the order of
\* the symbols
_calculate_checksum_weighted(encoded) ==
  IF \E i \in 1..Len(encoded) : Find(CHARSET, encoded[i]) = -1
  THEN Raise("substring not found", "")
  ELSE Return(<<CHARSET[(WeightedSumIndex(encoded, 1) % BASE) + 1]>>)

\* faulty variant of _calculate_checksum: the sum is over encoded[1:]
_calculate_checksum_tail(encoded) ==
  IF \E i \in 1..Len(encoded) : Find(CHARSET, encoded[i]) = -1
  THEN Raise("substring not found", "")
  ELSE Return(<<CHARSET[(SumIndex(encoded, 2) % BASE) + 1]>>)

\* _calculate_checksum: CHARSET.index(c) raises on the first c that is not
\* in CHARSET
_calculate_checksum(encoded) ==
  IF \E i \in 1..Len(encoded) : Find(CHARSET, encoded[i]) = -1
  THEN Raise("substring not found", "")
  ELSE Return(<<CHARSET[(SumIndex(encoded, 1) % BASE) + 1]>>)

\* _add_block_separators
_add_block_separators(s) ==
  Join(<<":">>, Chunks(s, Len(s), BLOCK_SIZE))

\* faulty variant of EncodeLoop: encoded = encoded + CHARSET[remainder],
\* least significant digit first
RECURSIVE EncodeLoopAppend(_)
EncodeLoopAppend(at) ==
  IF Positive(at.current)
  THEN EncodeLoopAppend(
         [current |-> PyInt(FALSE, FloorDiv(at.current.mag, BASE)),
          encoded |-> at.encoded \o <<CHARSET[Mod(at.current.mag, BASE) + 1]>>])
  ELSE at.encoded

\* while current > 0: encoded = CHARSET[current % BASE] + encoded;
\*                    current //= BASE
\* at is the loop state: current and encoded
RECURSIVE EncodeLoop(_)
EncodeLoop(at) ==
  IF Positive(at.current)
  THEN EncodeLoop(
         [current |-> PyInt(FALSE, FloorDiv(at.current.mag, BASE)),
          encoded |-> <<CHARSET[Mod(at.current.mag, BASE) + 1]>> \o at.encoded])
  ELSE at.encoded

None == [isNone |-> TRUE, str |-> <<>>]

Str(s) == [isNone |-> FALSE, str |-> s]

encode(ipv6_expanded, add_blocks) ==
  IF ipv6_expanded.isNone
  THEN Raise("IPv6 address cannot be None", "")
  ELSE
    LET hex_str == Lower(RemoveColons(ipv6_expanded.str))
    IN IF Len(hex_str) # HEX_LEN
       THEN Raise("IPv6 must be fully expanded (32 hex digits)", "")
       ELSE
         LET value == IntBase16(hex_str)
         IN IF ~value.ok THEN value
            ELSE
              LET digits == EncodeLoop([current |-> value.value, encoded |-> <<>>])
                  padded == RJust(digits, PAD_LEN, "0")
                  checksum_char == _calculate_checksum(padded)
              IN IF ~checksum_char.ok THEN checksum_char
                 ELSE
                   LET encoded == padded \o checksum_char.value
                   IN Return(PREFIX \o
                             (IF add_blocks
                              THEN _add_block_separators(encoded)
                              ELSE encoded))

\* faulty variant of DecodeLoop: value = value * BASE + index + 1, the
\* symbols counted from 1
RECURSIVE DecodeLoopFromOne(_, _, _)
DecodeLoopFromOne(encoded, i, value) ==
  IF i > Len(encoded) \/ ~value.ok THEN value
  ELSE LET index == Find(CHARSET, encoded[i])
       IN DecodeLoopFromOne(encoded, i + 1,
            IF index = -1
            THEN Raise("Invalid character in encoded string", encoded[i])
            ELSE Return(PyInt(FALSE, MulAdd(value.value.mag, BASE, index + 1))))

\* for c in encoded: index = CHARSET.find(c); value = value * BASE + index
\* value is the loop state: the value so far, or what the loop raised
RECURSIVE DecodeLoop(_, _, _)
DecodeLoop(encoded, i, value) ==
  IF i > Len(encoded) \/ ~value.ok THEN value
  ELSE LET index == Find(CHARSET, encoded[i])
       IN DecodeLoop(encoded, i + 1,
            IF index = -1
            THEN Raise("Invalid character in encoded string", encoded[i])
            ELSE Return(PyInt(FALSE, MulAdd(value.value.mag, BASE, index))))

decode(v6sf) ==
  IF ~StartsWith(Lower(v6sf), PREFIX)
  THEN Raise("Input must start with prefix v6sf:", "")
  ELSE
    LET clean == Lower(RemoveColons(SliceFrom(v6sf, Len(PREFIX))))
    IN IF Len(clean) < 2
       THEN Raise("Encoded value too short", "")
       ELSE
         LET checksum_char == clean[Len(clean)]
             encoded == SubSeq(clean, 1, Len(clean) - 1)
             expected == _calculate_checksum(encoded)
         IN IF ~expected.ok THEN expected
            ELSE IF checksum_char # expected.value[1]
            THEN Raise("Invalid checksum", "")
            ELSE
              LET value == DecodeLoop(encoded, 1, Return(PyInt(FALSE, <<>>)))
              IN IF ~value.ok THEN value
                 ELSE
                   LET hex_str == RJust(SliceFrom(Hex(value.value), 2),
                                        HEX_LEN, "0")
                       ipv6_blocks == Chunks(hex_str, HEX_LEN, BLOCK_SIZE)
                   IN Return(Join(<<":">>, ipv6_blocks))

(* ------------------------------------------------------------------ *)
(* Inputs                                                              *)
(* ------------------------------------------------------------------ *)

\* how many of the addresses of AddrList are encoded
NumAddrs == 6

\* how many of them are also given in other spellings
NumVariants == 2

\* longest tail after the prefix of the short decode inputs
MaxTail == 3

\* how many symbols more than PAD_LEN a decode input's body may have
MaxExtra == 1

RECURSIVE Rep(_, _)
Rep(n, s) == IF n <= 0 THEN <<>> ELSE s \o Rep(n - 1, s)

Group(a, b, c, d) == <<a, b, c, d>>

Address(groups) == Join(<<":">>, groups)

G0000 == Group("0", "0", "0", "0")
GFFFF == Group("f", "f", "f", "f")

\* fully expanded addresses: 8 groups of 4 lowercase hex digits
AddrList ==
  << Address(Rep(8, <<GFFFF>>)),
     Address(Rep(7, <<G0000>>) \o <<Group("0", "0", "0", "1")>>),
     Address(Rep(8, <<G0000>>)),
     Address(Rep(2, << Group("1", "2", "3", "4"), Group("5", "6", "7", "8"),
                       Group("9", "a", "b", "c"), Group("d", "e", "f", "0") >>)),
     Address(<<Group("2", "0", "0", "1"), Group("0", "d", "b", "8")>>
             \o Rep(5, <<G0000>>) \o <<Group("0", "0", "2", "2")>>),
     Address(<<Group("8", "0", "0", "0")>> \o Rep(7, <<G0000>>)),
     Address(<<Group("f", "e", "8", "0")>> \o Rep(3, <<G0000>>)
             \o Rep(4, <<Group("a", "5", "5", "a")>>)),
     Address(Rep(4, <<G0000>>) \o Rep(4, <<GFFFF>>)) >>

Min(a, b) == IF a < b THEN a ELSE b

Addresses == {AddrList[k] : k \in 1..Min(NumAddrs, Len(AddrList))}

VariantBases == {AddrList[k] : k \in 1..Min(NumVariants, Len(AddrList))}

\* s with the character at position p replaced by c
Subst(s, p, c) == SubSeq(s, 1, p - 1) \o <<c>> \o SubSeq(s, p + 1, Len(s))

SubstChars == {"-", "+", " ", "_", "x", "0"}

SubstPositions == {1, 2, 3, HEX_LEN}

\* 32-character strings one or two characters away from an address
Substituted ==
  LET bases == {RemoveColons(a) : a \in VariantBases}
      one == {Subst(b, p, c) : b \in bases, p \in SubstPositions,
                               c \in SubstChars}
  IN one \cup {Subst(s, p, c) : s \in one, p \in SubstPositions,
                                c \in SubstChars}

\* other spellings of an address, and strings of the wrong length
Respelled ==
  UNION {{ Upper(a), RemoveColons(a), <<":">> \o a \o <<":", ":">>,
           SubSeq(a, 1, Len(a) - 1), a \o <<"0">>, <<>> } : a \in VariantBases}

EncodeInputs ==
  {None} \cup {Str(s) : s \in Addresses \cup Respelled \cup Substituted}

TailChars == {"0", "z", ":", "o"}

RECURSIVE Tails(_)
Tails(n) ==
  IF n = 0 THEN {<<>>}
  ELSE LET shorter == Tails(n - 1)
       IN shorter \cup {Append(s, c) : s \in shorter, c \in TailChars}

Heads ==
  { PREFIX, Upper(PREFIX), Subst(PREFIX, 1, "V"), Subst(PREFIX, 1, "x"),
    SubSeq(PREFIX, 1, 4), <<":">> \o PREFIX, <<>> }

\* short decode inputs: a head that is or resembles the prefix, and a tail
ShortInputs == {h \o s : h \in Heads, s \in Tails(MaxTail)}

BodyChars == {"0", "1", "u", "z"}

\* bodies of PAD_LEN - 1 to PAD_LEN + MaxExtra symbols
Bodies ==
  {<<first>> \o Rep(n - 2, <<fill>>) \o <<last>> :
     first \in BodyChars, fill \in BodyChars, last \in BodyChars,
     n \in (PAD_LEN - 1)..(PAD_LEN + MaxExtra)}

\* decode inputs that carry the checksum of their body
Checksummed == {PREFIX \o b \o _calculate_checksum(b).value : b \in Bodies}

DecodeInputs == ShortInputs \cup Checksummed

(* ------------------------------------------------------------------ *)
(* State                                                               *)
(* ------------------------------------------------------------------ *)

VARIABLES
  pc,             \* "encode", "encoded", "received", "edited", "decoded", "done"
  ipv6_expanded,  \* encode's argument
  add_blocks,     \* encode's argument
  enc,            \* what encode returned or raised
  sent,           \* the string before it was edited
  edit,           \* the edit made to it
  v6sf,           \* decode's argument
  dec,            \* what decode returned or raised
  re_enc          \* what encode(decode(v6sf), add_blocks=False) returned

vars == <<pc, ipv6_expanded, add_blocks, enc, sent, edit, v6sf, dec, re_enc>>

NotCalled == Raise("not called", "")

NoEdit == [kind |-> "none", p |-> 0, q |-> 0, c |-> ""]

InitEncode(inputs) ==
  /\ pc = "encode"
  /\ ipv6_expanded \in inputs
  /\ add_blocks \in BOOLEAN
  /\ enc = NotCalled
  /\ sent = <<>>
  /\ edit = NoEdit
  /\ v6sf = <<>>
  /\ dec = NotCalled
  /\ re_enc = NotCalled

InitDecode(inputs) ==
  /\ pc = "received"
  /\ ipv6_expanded = None
  /\ add_blocks = FALSE
  /\ enc = NotCalled
  /\ sent \in inputs
  /\ edit = NoEdit
  /\ v6sf = sent
  /\ dec = NotCalled
  /\ re_enc = NotCalled

Init == InitEncode(EncodeInputs) \/ InitDecode(DecodeInputs)

(* ------------------------------------------------------------------ *)
(* Calls                                                               *)
(* ------------------------------------------------------------------ *)

\* enc = encode(ipv6_expanded, add_blocks)
Encode ==
  /\ pc = "encode"
  /\ enc' = encode(ipv6_expanded, add_blocks)
  /\ IF enc'.ok
     THEN pc' = "encoded" /\ sent' = enc'.value /\ v6sf' = enc'.value
     ELSE pc' = "done" /\ UNCHANGED <<sent, v6sf>>
  /\ UNCHANGED <<ipv6_expanded, add_blocks, edit, dec, re_enc>>

\* dec = decode(v6sf)
Decode ==
  /\ pc \in {"encoded", "received", "edited"}
  /\ dec' = decode(v6sf)
  /\ pc' = "decoded"
  /\ UNCHANGED <<ipv6_expanded, add_blocks, enc, sent, edit, v6sf, re_enc>>

\* re_enc = encode(dec, add_blocks=False)
ReEncode ==
  /\ pc = "decoded"
  /\ dec.ok
  /\ re_enc' = encode(Str(dec.value), FALSE)
  /\ pc' = "done"
  /\ UNCHANGED <<ipv6_expanded, add_blocks, enc, sent, edit, v6sf, dec>>

(* ------------------------------------------------------------------ *)
(* Edits made to a string between the calls                            *)
(* ------------------------------------------------------------------ *)

\* positions of s after the prefix that hold a symbol
SymbolPositions(s) == {p \in (Len(PREFIX) + 1)..Len(s) : s[p] # ":"}

Max(S) == CHOOSE x \in S : \A y \in S : y <= x

ChecksumPosition(s) == Max(SymbolPositions(s))

BodyPositions(s) == SymbolPositions(s) \ {ChecksumPosition(s)}

Edited(kind, p, q, c, s) ==
  /\ edit' = [kind |-> kind, p |-> p, q |-> q, c |-> c]
  /\ v6sf' = s
  /\ pc' = "edited"
  /\ UNCHANGED <<ipv6_expanded, add_blocks, enc, sent, dec, re_enc>>

\* a ":" is put after position p, at or after the end of the prefix
InsertColon ==
  /\ pc \in {"encoded", "received"}
  /\ StartsWith(Lower(v6sf), PREFIX)
  /\ \E p \in Len(PREFIX)..Len(v6sf) :
       Edited("insert_colon", p, 0, ":",
              SubSeq(v6sf, 1, p) \o <<":">> \o SubSeq(v6sf, p + 1, Len(v6sf)))

\* every ":" after the prefix is taken out
StripColons ==
  /\ pc \in {"encoded", "received"}
  /\ StartsWith(Lower(v6sf), PREFIX)
  /\ Edited("strip_colons", 0, 0, "",
            SubSeq(v6sf, 1, Len(PREFIX))
              \o RemoveColons(SliceFrom(v6sf, Len(PREFIX))))

\* the unsegmented symbols after the prefix are put in blocks
AddBlocks ==
  /\ pc \in {"encoded", "received"}
  /\ StartsWith(Lower(v6sf), PREFIX)
  /\ \A p \in (Len(PREFIX) + 1)..Len(v6sf) : v6sf[p] # ":"
  /\ Edited("add_blocks", 0, 0, "",
            SubSeq(v6sf, 1, Len(PREFIX))
              \o _add_block_separators(SliceFrom(v6sf, Len(PREFIX))))

\* the whole string is written in upper case
UpperCase ==
  /\ pc \in {"encoded", "received"}
  /\ Edited("upper", 0, 0, "", Upper(v6sf))

\* the symbols at two positions of the body change places
SwapSymbols ==
  /\ pc = "encoded"
  /\ \E p \in BodyPositions(v6sf), q \in BodyPositions(v6sf) :
       /\ p < q
       /\ Edited("swap", p, q, "", Subst(Subst(v6sf, p, v6sf[q]), q, v6sf[p]))

\* one symbol, of the body or the checksum, becomes another symbol of CHARSET
SubstituteSymbol ==
  /\ pc = "encoded"
  /\ \E p \in SymbolPositions(v6sf), k \in 1..Len(CHARSET) :
       /\ CHARSET[k] # v6sf[p]
       /\ Edited("substitute", p, 0, CHARSET[k], Subst(v6sf, p, CHARSET[k]))

ForeignChars == {"o", "O", "-"}

\* one symbol, of the body or the checksum, becomes a character that is not
\* in CHARSET
CorruptSymbol ==
  /\ pc = "encoded"
  /\ \E p \in SymbolPositions(v6sf), c \in ForeignChars :
       Edited("corrupt", p, 0, c, Subst(v6sf, p, c))

Next ==
  \/ Encode
  \/ Decode
  \/ ReEncode
  \/ InsertColon
  \/ StripColons
  \/ AddBlocks
  \/ UpperCase

Spec == Init /\ [][Next]_vars

\* transmission errors in the encoding of an address
InitNoisy == InitEncode({Str(s) : s \in Addresses})

NextNoisy ==
  \/ Encode
  \/ SwapSymbols
  \/ SubstituteSymbol
  \/ CorruptSymbol
  \/ Decode

SpecNoisy == InitNoisy /\ [][NextNoisy]_vars

(* ------------------------------------------------------------------ *)
(* Vocabulary of the properties                                        *)
(* ------------------------------------------------------------------ *)

\* the error kind of a failed call, by the message raised
Kind(r) ==
  CASE r.ok -> "None"
    [] r.error = "IPv6 address cannot be None" -> "InvalidInput"
    [] r.error = "IPv6 must be fully expanded (32 hex digits)" -> "MalformedAddress"
    [] r.error = "invalid literal for int() with base 16" -> "MalformedAddress"
    [] r.error = "Input must start with prefix v6sf:" -> "MissingPrefix"
    [] r.error = "Encoded value too short" -> "TooShort"
    [] r.error = "Invalid checksum" -> "ChecksumMismatch"
    [] r.error = "Invalid character in encoded string" -> "InvalidSymbol"
    [] OTHER -> "Unclassified"

EncodeCalled == pc # "encode" /\ enc # NotCalled

DecodeCalled == pc \in {"decoded", "done"} /\ dec # NotCalled

IsHex(s) == \A i \in 1..Len(s) : Find(HEX_DIGITS, s[i]) # -1

InCharset(s) == \A i \in 1..Len(s) : Find(CHARSET, s[i]) # -1

\* 8 groups of 4 lowercase hex digits joined by ":"
IsExpanded(s) ==
  /\ Len(s) = HEX_LEN + 7
  /\ \A i \in 1..Len(s) :
       IF i % (BLOCK_SIZE + 1) = 0 THEN s[i] = ":"
       ELSE Find(HEX_DIGITS, s[i]) # -1

\* the input names a 128-bit value: 32 hex digits once ":" is removed
NamesValue(x) == ~x.isNone /\ Len(RemoveColons(x.str)) = HEX_LEN
                  /\ IsHex(Lower(RemoveColons(x.str)))

\* case-insensitively "v6sf:"
HasPrefix(s) ==
  /\ Len(s) >= 5
  /\ s[1] \in {"v", "V"}
  /\ s[2] = "6"
  /\ s[3] \in {"s", "S"}
  /\ s[4] \in {"f", "F"}
  /\ s[5] = ":"

\* the lowercased symbols after the prefix, ":" left out
Symbols(s) == Lower(RemoveColons(SliceFrom(s, Len(PREFIX))))

\* all of them but the last
BodyOf(s) == SubSeq(Symbols(s), 1, Len(Symbols(s)) - 1)

\* the number a string of CHARSET symbols denotes in base 35, most
\* significant symbol first
RECURSIVE Base35From(_, _)
Base35From(syms, at) ==
  IF at.i > Len(syms) THEN at.mag
  ELSE Base35From(syms,
         [i |-> at.i + 1,
          mag |-> MulAdd(at.mag, Len(CHARSET), Find(CHARSET, syms[at.i]))])

Base35Value(syms) == Base35From(syms, [i |-> 1, mag |-> <<>>])

\* all base-16 digits of a number ("0" for 0)
AllHexDigits(mag) == IF mag = <<>> THEN <<"0">> ELSE HexDigitsOf(mag)

\* at most 2^128 - 1
Fits128(mag) == Len(AllHexDigits(mag)) <= HEX_LEN

\* sum of the symbols' positions in CHARSET, modulo 35, as a symbol
SumSymbol(syms) == CHARSET[(SumIndex(syms, 1) % Len(CHARSET)) + 1]

\* s has the prefix and at least 2 symbols, all of CHARSET, the last being
\* the checksum of the others
WellFormed(s) ==
  /\ HasPrefix(s)
  /\ Len(Symbols(s)) >= 2
  /\ InCharset(Symbols(s))
  /\ Symbols(s)[Len(Symbols(s))] = SumSymbol(BodyOf(s))

(* ------------------------------------------------------------------ *)
(* Properties                                                          *)
(* ------------------------------------------------------------------ *)

\* C1: decoding the encoding of a fully expanded address (8 groups of 4
\* lowercase hex digits) returns exactly that address, with and without
\* blocks.
C1_RoundTrip ==
  (DecodeCalled /\ EncodeCalled /\ edit = NoEdit
     /\ ~ipv6_expanded.isNone /\ IsExpanded(ipv6_expanded.str))
  => (enc.ok /\ dec.ok /\ dec.value = ipv6_expanded.str)

C1_Witness ==
  /\ pc = "decoded" /\ edit = NoEdit /\ add_blocks
  /\ ipv6_expanded = Str(AddrList[4])
  /\ dec.ok

\* C2: encode returns a result only when the input, with ":" removed and
\* lowercased, is exactly 32 hex digits; any other non-null input fails
\* with MalformedAddress.
C2_OnlyHexAccepted ==
  (EncodeCalled /\ ~ipv6_expanded.isNone)
  => IF NamesValue(ipv6_expanded)
     THEN enc.ok
     ELSE ~enc.ok /\ Kind(enc) = "MalformedAddress"

\* C3: a decode input with the prefix, at least 2 symbols and a body that
\* holds a character outside CHARSET fails with InvalidSymbol naming a
\* character of the body that is outside CHARSET.
C3_InvalidSymbolReported ==
  (DecodeCalled /\ HasPrefix(v6sf) /\ Len(Symbols(v6sf)) >= 2
     /\ ~InCharset(BodyOf(v6sf)))
  => /\ ~dec.ok
     /\ Kind(dec) = "InvalidSymbol"
     /\ \E i \in 1..Len(BodyOf(v6sf)) :
          /\ BodyOf(v6sf)[i] = dec.detail
          /\ Find(CHARSET, dec.detail) = -1

\* C4: for an input naming the value v, encode returns "v6sf:" and a body
\* of 26 CHARSET symbols once ":" is removed: the 25 base-35 digits of v,
\* zero-padded, then their checksum; without blocks the body has no ":",
\* with blocks it is 7 groups of 4,4,4,4,4,4,2 symbols joined by ":".
C4_EncodedShape ==
  (EncodeCalled /\ NamesValue(ipv6_expanded))
  => /\ enc.ok
     /\ SubSeq(enc.value, 1, 5) = <<"v", "6", "s", "f", ":">>
     /\ LET body == SubSeq(enc.value, 6, Len(enc.value))
            syms == SelectSeq(body, LAMBDA c : c # ":")
            digits == SubSeq(syms, 1, 25)
        IN /\ Len(syms) = 26
           /\ InCharset(syms)
           /\ Base35Value(digits)
                = FromHexDigits(Lower(RemoveColons(ipv6_expanded.str)))
           /\ syms[26] = SumSymbol(digits)
           /\ ~add_blocks => body = syms
           /\ add_blocks =>
                /\ Len(body) = 32
                /\ \A i \in 1..32 : (body[i] = ":") <=> (i % 5 = 0)

C4_Witness ==
  /\ pc = "encoded" /\ add_blocks
  /\ ipv6_expanded = Str(AddrList[2])
  /\ Len(enc.value) = 37

\* C5: putting ":" anywhere after the prefix, taking every ":" after the
\* prefix out, or putting an unsegmented encoding in blocks, never
\* changes what decode returns or raises.
C5_SeparatorInsensitive ==
  (DecodeCalled /\ edit.kind \in {"insert_colon", "strip_colons", "add_blocks"})
  => dec = decode(sent)

C5_Witness ==
  /\ pc = "decoded" /\ edit.kind = "add_blocks"
  /\ sent \in Checksummed
  /\ dec.ok

\* C6: decode fails with MissingPrefix exactly when the input does not
\* begin, case-insensitively, with "v6sf:"; otherwise it fails with
\* TooShort exactly when fewer than 2 characters are left once the prefix
\* and every ":" are removed.
C6_PrefixThenLength ==
  DecodeCalled
  => /\ (Kind(dec) = "MissingPrefix") <=> ~HasPrefix(v6sf)
     /\ HasPrefix(v6sf) =>
          ((Kind(dec) = "TooShort") <=> (Cardinality(SymbolPositions(v6sf)) < 2))

C6_Witness ==
  /\ pc = "decoded"
  /\ v6sf = <<"V", "6", "S", "F", ":", ":", "0">>
  /\ Kind(dec) = "TooShort"

\* a well-formed input whose body has more than 25 symbols and a value
\* above 2^128 - 1
Overlong(s) ==
  /\ WellFormed(s)
  /\ Len(BodyOf(s)) > PAD_LEN
  /\ ~Fits128(Base35Value(BodyOf(s)))

\* C7 as stated: such an input is not rejected and the string returned
\* carries every hex digit of the value, more than 32.
C7_AllDigitsReturned ==
  (DecodeCalled /\ Overlong(v6sf))
  => /\ dec.ok
     /\ RemoveColons(dec.value) = AllHexDigits(Base35Value(BodyOf(v6sf)))

\* C7 amended: such an input is not rejected, and the string returned is
\* 8 groups of 4 hex digits: the 32 most significant hex digits of the
\* value; the digits after them are dropped.
C7_LeadingDigitsReturned ==
  (DecodeCalled /\ Overlong(v6sf))
  => /\ dec.ok
     /\ IsExpanded(dec.value)
     /\ RemoveColons(dec.value)
          = SubSeq(AllHexDigits(Base35Value(BodyOf(v6sf))), 1, HEX_LEN)

C7_Witness ==
  /\ pc = "decoded" /\ Overlong(v6sf)
  /\ Len(BodyOf(v6sf)) = PAD_LEN + 1
  /\ dec.ok

\* the encoding of an address, two symbols of its body swapped, decoded
Swapped == DecodeCalled /\ edit.kind = "swap"

\* C8 as stated: the checksum is the same after the swap, decode accepts
\* the input, and the address returned is the value of the permuted body.
C8_SwapDecodesToBody ==
  Swapped
  => /\ _calculate_checksum(BodyOf(v6sf)) = _calculate_checksum(BodyOf(sent))
     /\ dec.ok
     /\ FromHexDigits(RemoveColons(dec.value)) = Base35Value(BodyOf(v6sf))

\* C8 amended: the checksum is the same after the swap and decode accepts
\* the input; the address returned is the value of the permuted body when
\* that value is at most 2^128 - 1, and its 32 most significant hex digits
\* otherwise.
C8_SwapAccepted ==
  Swapped
  => /\ _calculate_checksum(BodyOf(v6sf)) = _calculate_checksum(BodyOf(sent))
     /\ dec.ok
     /\ LET value == Base35Value(BodyOf(v6sf))
        IN IF Fits128(value)
           THEN FromHexDigits(RemoveColons(dec.value)) = value
           ELSE RemoveColons(dec.value)
                  = SubSeq(AllHexDigits(value), 1, HEX_LEN)

C8_Witness ==
  /\ pc = "decoded" /\ edit.kind = "swap"
  /\ v6sf # sent
  /\ Fits128(Base35Value(BodyOf(v6sf)))
  /\ dec.ok

\* C9: the encoding of an address with one of its 26 symbols replaced by
\* another symbol of CHARSET is rejected with ChecksumMismatch.
C9_SubstitutionDetected ==
  (DecodeCalled /\ edit.kind = "substitute")
  => (~dec.ok /\ Kind(dec) = "ChecksumMismatch")

C9_Witness ==
  /\ pc = "decoded" /\ edit.kind = "substitute"
  /\ edit.p = ChecksumPosition(sent)
  /\ Kind(dec) = "ChecksumMismatch"

\* an input decode accepted, with exactly 25 CHARSET symbols before the
\* checksum, whose address has been encoded again
ReEncoded ==
  /\ pc = "done" /\ dec.ok /\ re_enc # NotCalled
  /\ Len(BodyOf(v6sf)) = PAD_LEN
  /\ InCharset(BodyOf(v6sf))

\* C10 as stated: encoding the decoded address without blocks gives the
\* prefix and the 26 lowercased symbols of the input.
C10_ReverseRoundTrip ==
  ReEncoded
  => (re_enc.ok /\ re_enc.value = <<"v", "6", "s", "f", ":">> \o Symbols(v6sf))

\* C10 amended: the same, for bodies whose base-35 value is at most
\* 2^128 - 1.
C10_ReverseRoundTripIn128 ==
  (ReEncoded /\ Fits128(Base35Value(BodyOf(v6sf))))
  => (re_enc.ok /\ re_enc.value = <<"v", "6", "s", "f", ":">> \o Symbols(v6sf))

C10_Witness ==
  /\ ReEncoded /\ edit.kind = "upper"
  /\ sent \in Checksummed
  /\ BodyOf(v6sf)[1] = "u"
  /\ Fits128(Base35Value(BodyOf(v6sf)))
  /\ re_enc.ok

====
